---- MODULE Spec2Model ----
(***************************************************************************)
(* Model of export_gibraltar_tariff.py: the chapter loop of main(), the    *)
(* two extractors and the two deduplication passes.                        *)
(*                                                                         *)
(* A Python str is a sequence of one-character tokens.  Tokens that are    *)
(* not printable ASCII are named: "TAB" (U+0009), "LF" (U+000A), "EN"      *)
(* (U+2013 en dash), "EM" (U+2014 em dash).                                *)
(***************************************************************************)
EXTENDS Integers, Sequences, FiniteSets, TLC

VARIABLES pc, chapter, text, chapter_codes, all_records, chapter_records,
          deduped_records, chapters_clean, codes_file, chapters_file,
          outcome, attempts, sleeps

vars == <<pc, chapter, text, chapter_codes, all_records, chapter_records,
          deduped_records, chapters_clean, codes_file, chapters_file,
          outcome, attempts, sleeps>>

(***************************************************************************)
(* Bounds of the model                                                     *)
(***************************************************************************)
\* the loop of main() runs over 1..99; the model runs it over 1..LastChapter
LastChapter == 3
\* an extractor input is a concatenation of at most MaxPieces pieces
MaxPieces == 3

(***************************************************************************)
(* Character classes                                                       *)
(***************************************************************************)
DIGITS == <<"0", "1", "2", "3", "4", "5", "6", "7", "8", "9">>

Digits == {DIGITS[i] : i \in 1..10}

Letters == {"C", "H", "A", "P", "T", "E", "R", "a"}

\* \w of a str pattern
IsWord(c) == c \in Digits \cup Letters

\* str.isspace(): what str.strip() without argument removes
IsSpace(c) == c \in {" ", "TAB", "LF"}

\* the line boundaries of str.splitlines()
IsLineBreak(c) == c = "LF"

\* the character class [0-9*] of CODE_PATTERN
InCodeClass(c) == c \in Digits \cup {"*"}

\* the argument of desc.lstrip(...)
LSTRIP_CHARS == {" ", "-", "EN", "EM", ":"}

\* the three group widths of CODE_PATTERN
GROUP1 == 10

GROUP2 == 2

GROUP3 == 2

CODE_LEN == GROUP1 + 1 + GROUP2 + 1 + GROUP3

(***************************************************************************)
(* str methods                                                             *)
(***************************************************************************)
Tail_(s, n) == SubSeq(s, n, Len(s))

RECURSIVE lstrip(_, _)
lstrip(s, chars) ==
    IF s # <<>> /\ Head(s) \in chars THEN lstrip(Tail(s), chars) ELSE s

RECURSIVE lstrip_ws(_)
lstrip_ws(s) == IF s # <<>> /\ IsSpace(Head(s)) THEN lstrip_ws(Tail(s)) ELSE s

RECURSIVE rstrip_ws(_)
rstrip_ws(s) ==
    IF s # <<>> /\ IsSpace(s[Len(s)])
    THEN rstrip_ws(SubSeq(s, 1, Len(s) - 1)) ELSE s

strip(s) == rstrip_ws(lstrip_ws(s))

\* str.splitlines(): no line for the empty remainder after a final break
RECURSIVE splitlines_(_, _, _)
splitlines_(s, cur, acc) ==
    IF s = <<>> THEN (IF cur = <<>> THEN acc ELSE Append(acc, cur))
    ELSE IF IsLineBreak(Head(s))
         THEN splitlines_(Tail(s), <<>>, Append(acc, cur))
         ELSE splitlines_(Tail(s), Append(cur, Head(s)), acc)

splitlines(s) == splitlines_(s, <<>>, <<>>)

\* f"{chapter:02d}"
Fmt02d(n) ==
    IF n < 10 THEN <<"0", DIGITS[n + 1]>>
    ELSE IF n < 100 THEN <<DIGITS[(n \div 10) + 1], DIGITS[(n % 10) + 1]>>
    ELSE <<DIGITS[(n \div 100) + 1], DIGITS[((n \div 10) % 10) + 1],
           DIGITS[(n % 10) + 1]>>

(***************************************************************************)
(* CODE_PATTERN = \b[0-9*]{10}-[0-9*]{2}-[0-9*]{2}\b                       *)
(***************************************************************************)
WordAt(line, p) == p >= 1 /\ p <= Len(line) /\ IsWord(line[p])

\* \b between the characters p-1 and p of line
WordBoundary(line, p) == WordAt(line, p - 1) # WordAt(line, p)

\* the pattern matches the CODE_LEN characters of line that start at p
MatchAt(line, p) ==
    /\ p >= 1
    /\ p + CODE_LEN - 1 <= Len(line)
    /\ WordBoundary(line, p)
    /\ \A k \in 0..(GROUP1 - 1) : InCodeClass(line[p + k])
    /\ line[p + GROUP1] = "-"
    /\ \A k \in 1..GROUP2 : InCodeClass(line[p + GROUP1 + k])
    /\ line[p + GROUP1 + 1 + GROUP2] = "-"
    /\ \A k \in 1..GROUP3 : InCodeClass(line[p + GROUP1 + 1 + GROUP2 + k])
    /\ WordBoundary(line, p + CODE_LEN)

\* CODE_PATTERN.finditer(line): the start positions of the successive
\* non-overlapping matches, the scan resuming at the end of each match
RECURSIVE finditer_(_, _, _)
finditer_(line, p, acc) ==
    IF p + CODE_LEN - 1 > Len(line) THEN acc
    ELSE IF MatchAt(line, p)
         THEN finditer_(line, p + CODE_LEN, Append(acc, p))
         ELSE finditer_(line, p + 1, acc)

finditer(line) == finditer_(line, 1, <<>>)

\* match.group(0) and match.end() (0-based end = 1-based last position)
MatchGroup0(line, p) == SubSeq(line, p, p + CODE_LEN - 1)

MatchEnd(line, p) == p + CODE_LEN - 1

(***************************************************************************)
(* extract_codes_from_text                                                 *)
(***************************************************************************)
\* the text after the first occurrence of the code in the line
Description_first(line, p) ==
    LET code == MatchGroup0(line, p)
        q == CHOOSE q \in 1..p :
                 /\ SubSeq(line, q, q + CODE_LEN - 1) = code
                 /\ \A r \in 1..(q - 1) : SubSeq(line, r, r + CODE_LEN - 1) # code
    IN lstrip(strip(Tail_(line, q + CODE_LEN)), LSTRIP_CHARS)

\* desc = line[match.end():].strip(); desc = desc.lstrip(" -<EN><EM>:")
Description(line, p) ==
    lstrip(strip(Tail_(line, MatchEnd(line, p) + 1)), LSTRIP_CHARS)

CodeRecord(ch, code, desc) ==
    [chapter |-> Fmt02d(ch), code |-> code, description |-> desc]

\* every match is recorded, seen or not
MatchStep_noSeen(st, line, p, ch) ==
    LET code == MatchGroup0(line, p)
        desc == Description(line, p)
    IN [records |-> Append(st.records, CodeRecord(ch, code, desc)),
        seen    |-> st.seen \cup {<<ch, code, desc>>}]

\* one pass of the inner loop body; st = [records, seen]
MatchStep(st, line, p, ch) ==
    LET code == MatchGroup0(line, p)
        desc == Description(line, p)
        key  == <<ch, code, desc>>
    IN IF key \in st.seen THEN st
       ELSE [records |-> Append(st.records, CodeRecord(ch, code, desc)),
             seen    |-> st.seen \cup {key}]

RECURSIVE MatchLoop(_, _, _, _)
MatchLoop(st, line, ms, ch) ==
    IF ms = <<>> THEN st
    ELSE MatchLoop(MatchStep(st, line, Head(ms), ch), line, Tail(ms), ch)

RECURSIVE LineLoop(_, _, _)
LineLoop(st, lines, ch) ==
    IF lines = <<>> THEN st
    ELSE LET line == strip(Head(lines))
         IN IF line = <<>> THEN LineLoop(st, Tail(lines), ch)
            ELSE LineLoop(MatchLoop(st, line, finditer(line), ch),
                          Tail(lines), ch)

extract_codes_from_text(t, ch) ==
    LineLoop([records |-> <<>>, seen |-> {}], splitlines(t), ch).records

(***************************************************************************)
(* extract_chapter_name                                                    *)
(***************************************************************************)
CHAPTER_WORD == <<"C", "H", "A", "P", "T", "E", "R">>

HasPrefixAt(line, p, w) ==
    /\ p + Len(w) - 1 <= Len(line)
    /\ SubSeq(line, p, p + Len(w) - 1) = w

\* the first position >= p of line that holds no whitespace
RECURSIVE SkipSpace(_, _)
SkipSpace(line, p) ==
    IF p <= Len(line) /\ IsSpace(line[p]) THEN SkipSpace(line, p + 1) ELSE p

\* re.match(rf"^{chapter_str}\s+(CHAPTER\s+.+)$", line): the start of
\* group 1, or 0 when the line does not match
TitleMatch(line, chapter_str) ==
    LET a == Len(chapter_str) + 1
        b == SkipSpace(line, a)
        c == b + Len(CHAPTER_WORD)
    IN IF /\ HasPrefixAt(line, 1, chapter_str)
          /\ b > a
          /\ HasPrefixAt(line, b, CHAPTER_WORD)
          /\ c <= Len(line) /\ IsSpace(line[c])
          /\ c + 1 <= Len(line)
       THEN b ELSE 0

RECURSIVE NameLoop(_, _)
NameLoop(lines, chapter_str) ==
    IF lines = <<>> THEN <<>>
    ELSE LET line == strip(Head(lines))
         IN IF line = <<>> THEN NameLoop(Tail(lines), chapter_str)
            ELSE IF TitleMatch(line, chapter_str) # 0
                 THEN strip(Tail_(line, TitleMatch(line, chapter_str)))
                 ELSE NameLoop(Tail(lines), chapter_str)

extract_chapter_name(t, ch) == NameLoop(splitlines(t), Fmt02d(ch))

(***************************************************************************)
(* The pages the tariff site may serve, and the extractor inputs           *)
(***************************************************************************)
CodeA == <<"0", "1", "0", "1", "2", "1", "0", "0", "0", "0", "-",
           "0", "0", "-", "0", "0">>

CodeB == <<"0", "1", "0", "2", "2", "9", "2", "*", "0", "0", "-",
           "2", "*", "-", "0", "0">>

CodeStarFirst == <<"*", "1", "0", "1", "2", "1", "0", "0", "0", "0", "-",
                   "0", "0", "-", "0", "0">>

CodeStarLast == <<"0", "1", "0", "1", "2", "1", "0", "0", "0", "0", "-",
                  "0", "0", "-", "0", "*">>

\* 9 characters in the first group
ShortFirst == <<"0", "1", "0", "1", "2", "1", "0", "0", "0", "-",
                "0", "0", "-", "0", "0">>

\* 1 character in the middle group
ShortMiddle == <<"0", "1", "0", "1", "2", "1", "0", "0", "0", "0", "-",
                 "0", "-", "0", "0">>

Pieces ==
    {CodeA, CodeB, CodeStarFirst, CodeStarLast, ShortFirst, ShortMiddle,
     <<" ">>, <<"TAB">>, <<"LF">>, <<"-">>, <<"EN">>, <<":">>, <<"a">>,
     <<" ", "-", " ">>, <<"-", "TAB">>}

RECURSIVE Concats(_)
Concats(n) ==
    IF n = 0 THEN {<<>>}
    ELSE LET S == Concats(n - 1) IN S \cup {s \o p : s \in S, p \in Pieces}

ExtractorInputs == Concats(MaxPieces)

TitleLine(ch) == Fmt02d(ch) \o <<" ">> \o CHAPTER_WORD \o <<" ">> \o Fmt02d(ch)

\* what requests.get + BeautifulSoup.get_text may return for chapter ch
Pages(ch) ==
    { <<>>,
      \* a title, and the same code line twice
      TitleLine(ch) \o <<"LF">> \o CodeA \o <<" ", "-", " ", "a", "LF">>
          \o CodeB \o <<"LF">> \o CodeA \o <<" ", "-", " ", "a">>,
      \* no title, one code twice on a line
      CodeA \o <<" ">> \o CodeA,
      \* the title line of another chapter
      TitleLine(ch + 1) \o <<"LF">> \o CodeB \o <<":", "a">> }

(***************************************************************************)
(* main                                                                    *)
(***************************************************************************)
Chapters == 1..LastChapter

NoFile == [written |-> FALSE, header |-> <<>>, rows |-> <<>>]

Init ==
    /\ pc = "fetch"
    /\ chapter = 1
    /\ text = <<>>
    /\ chapter_codes = <<>>
    /\ all_records = <<>>
    /\ chapter_records = <<>>
    /\ deduped_records = <<>>
    /\ chapters_clean = <<>>
    /\ codes_file = NoFile
    /\ chapters_file = NoFile
    /\ outcome = [n \in Chapters |-> "none"]
    /\ attempts = <<>>
    /\ sleeps = 0

\* the next iteration of "for chapter in range(1, 100)", or the end of it
LoopNext ==
    IF chapter < LastChapter
    THEN /\ chapter' = chapter + 1
         /\ pc' = "fetch"
    ELSE /\ chapter' = chapter
         /\ pc' = "dedupe_codes"

Attempt(result) ==
    /\ pc = "fetch"
    /\ attempts' = Append(attempts, chapter)
    /\ outcome' = [outcome EXCEPT ![chapter] = result]

\* fetch_chapter_text returns t
FetchOk(t) ==
    /\ Attempt("ok")
    /\ text' = t
    /\ pc' = "extract"
    /\ UNCHANGED <<chapter, chapter_codes, all_records, chapter_records,
                   deduped_records, chapters_clean, codes_file,
                   chapters_file, sleeps>>

\* a retry of the same chapter after the error
FetchHTTPError_retry ==
    /\ Attempt("HTTPError")
    /\ pc' = "fetch"
    /\ UNCHANGED <<chapter, text, chapter_codes, all_records, chapter_records,
                   deduped_records, chapters_clean, codes_file,
                   chapters_file, sleeps>>

\* a placeholder row for the failed chapter
FetchHTTPError_placeholder ==
    /\ Attempt("HTTPError")
    /\ LoopNext
    /\ chapter_records' = Append(chapter_records,
           [chapter |-> Fmt02d(chapter), chapter_title |-> <<>>])
    /\ UNCHANGED <<text, chapter_codes, all_records,
                   deduped_records, chapters_clean, codes_file,
                   chapters_file, sleeps>>

\* except requests.HTTPError: print; continue
FetchHTTPError ==
    /\ Attempt("HTTPError")
    /\ LoopNext
    /\ UNCHANGED <<text, chapter_codes, all_records, chapter_records,
                   deduped_records, chapters_clean, codes_file,
                   chapters_file, sleeps>>

\* the exception leaves main
FetchRequestError_abort ==
    /\ Attempt("RequestException")
    /\ pc' = "aborted"
    /\ UNCHANGED <<chapter, text, chapter_codes, all_records, chapter_records,
                   deduped_records, chapters_clean, codes_file,
                   chapters_file, sleeps>>

\* except requests.RequestException: print; continue
FetchRequestError ==
    /\ Attempt("RequestException")
    /\ LoopNext
    /\ UNCHANGED <<text, chapter_codes, all_records, chapter_records,
                   deduped_records, chapters_clean, codes_file,
                   chapters_file, sleeps>>

ChapterTitleRecord(ch, name) ==
    [chapter |-> Fmt02d(ch), chapter_title |-> name]

\* no row for a chapter without a title
TitleRows_skipEmpty(ch, name) ==
    IF name # <<>> THEN <<ChapterTitleRecord(ch, name)>> ELSE <<>>

\* if chapter_name: append(... chapter_name) else: append(... "")
TitleRows(ch, name) ==
    IF name # <<>> THEN <<ChapterTitleRecord(ch, name)>>
    ELSE <<ChapterTitleRecord(ch, <<>>)>>

ExtractChapter ==
    /\ pc = "extract"
    /\ chapter_records' =
           chapter_records \o TitleRows(chapter, extract_chapter_name(text, chapter))
    /\ chapter_codes' = extract_codes_from_text(text, chapter)
    /\ all_records' = all_records \o chapter_codes'
    /\ pc' = "sleep"
    /\ UNCHANGED <<chapter, text, deduped_records, chapters_clean,
                   codes_file, chapters_file, outcome, attempts, sleeps>>

\* time.sleep(0.3), the last statement of the loop body
Sleep ==
    /\ pc = "sleep"
    /\ sleeps' = sleeps + 1
    /\ LoopNext
    /\ UNCHANGED <<text, chapter_codes, all_records, chapter_records,
                   deduped_records, chapters_clean, codes_file,
                   chapters_file, outcome, attempts>>

\* the key leaves the description out
FinalKey_noDescription(rec) == <<rec.chapter, rec.code>>

\* key = (rec["chapter"], rec["code"], rec["description"])
FinalKey(rec) == <<rec.chapter, rec.code, rec.description>>

ChapterKey(rec) == rec.chapter

RECURSIVE DedupeCodesLoop(_, _, _)
DedupeCodesLoop(recs, final_seen, out) ==
    IF recs = <<>> THEN out
    ELSE IF FinalKey(Head(recs)) \in final_seen
         THEN DedupeCodesLoop(Tail(recs), final_seen, out)
         ELSE DedupeCodesLoop(Tail(recs),
                              final_seen \cup {FinalKey(Head(recs))},
                              Append(out, Head(recs)))

RECURSIVE DedupeChaptersLoop(_, _, _)
DedupeChaptersLoop(recs, chapters_seen, out) ==
    IF recs = <<>> THEN out
    ELSE IF ChapterKey(Head(recs)) \in chapters_seen
         THEN DedupeChaptersLoop(Tail(recs), chapters_seen, out)
         ELSE DedupeChaptersLoop(Tail(recs),
                                 chapters_seen \cup {ChapterKey(Head(recs))},
                                 Append(out, Head(recs)))

DedupeCodes ==
    /\ pc = "dedupe_codes"
    /\ deduped_records' = DedupeCodesLoop(all_records, {}, <<>>)
    /\ pc' = "write_codes"
    /\ UNCHANGED <<chapter, text, chapter_codes, all_records, chapter_records,
                   chapters_clean, codes_file, chapters_file,
                   outcome, attempts, sleeps>>

WriteCodes ==
    /\ pc = "write_codes"
    /\ codes_file' = [written |-> TRUE,
                      header  |-> <<"chapter", "code", "description">>,
                      rows    |-> deduped_records]
    /\ pc' = "dedupe_chapters"
    /\ UNCHANGED <<chapter, text, chapter_codes, all_records, chapter_records,
                   deduped_records, chapters_clean, chapters_file,
                   outcome, attempts, sleeps>>

DedupeChapters ==
    /\ pc = "dedupe_chapters"
    /\ chapters_clean' = DedupeChaptersLoop(chapter_records, {}, <<>>)
    /\ pc' = "write_chapters"
    /\ UNCHANGED <<chapter, text, chapter_codes, all_records, chapter_records,
                   deduped_records, codes_file, chapters_file,
                   outcome, attempts, sleeps>>

WriteChapters ==
    /\ pc = "write_chapters"
    /\ chapters_file' = [written |-> TRUE,
                         header  |-> <<"chapter", "chapter_title">>,
                         rows    |-> chapters_clean]
    /\ pc' = "done"
    /\ UNCHANGED <<chapter, text, chapter_codes, all_records, chapter_records,
                   deduped_records, chapters_clean, codes_file,
                   outcome, attempts, sleeps>>

Next ==
    \/ \E t \in Pages(chapter) : FetchOk(t)
    \/ FetchHTTPError
    \/ FetchRequestError
    \/ ExtractChapter
    \/ Sleep
    \/ DedupeCodes
    \/ WriteCodes
    \/ DedupeChapters
    \/ WriteChapters

Spec == Init /\ [][Next]_vars

\* the steps of ExtractChapter are the steps from "extract" to "sleep", and
\* it is enabled whenever pc = "extract": it only assigns
ExtractChapterStep == pc = "extract" /\ pc' = "sleep"

\* the other steps of Next
OtherStep ==
    \/ \E t \in Pages(chapter) : FetchOk(t)
    \/ FetchHTTPError
    \/ FetchRequestError
    \/ Sleep
    \/ DedupeCodes
    \/ WriteCodes
    \/ DedupeChapters
    \/ WriteChapters

\* every step of main terminates: the request has a timeout, the sleep is
\* finite, the loops are bounded
FairSpec == Spec /\ WF_vars(OtherStep) /\ WF_pc(ExtractChapterStep)

(***************************************************************************)
(* The extractor on its own: extract_codes_from_text applied to an input   *)
(***************************************************************************)
ExtractInit ==
    /\ pc = "input"
    /\ chapter = 1
    /\ text \in ExtractorInputs
    /\ chapter_codes = <<>>
    /\ all_records = <<>>
    /\ chapter_records = <<>>
    /\ deduped_records = <<>>
    /\ chapters_clean = <<>>
    /\ codes_file = NoFile
    /\ chapters_file = NoFile
    /\ outcome = [n \in Chapters |-> "none"]
    /\ attempts = <<>>
    /\ sleeps = 0

ExtractCall ==
    /\ pc = "input"
    /\ chapter_codes' = extract_codes_from_text(text, chapter)
    /\ pc' = "extracted"
    /\ UNCHANGED <<chapter, text, all_records, chapter_records,
                   deduped_records, chapters_clean, codes_file,
                   chapters_file, outcome, attempts, sleeps>>

ExtractNext == ExtractCall

ExtractSpec == ExtractInit /\ [][ExtractNext]_vars

(***************************************************************************)
(* Vocabulary of the properties                                            *)
(***************************************************************************)
Failures == {"HTTPError", "RequestException"}

KeyOf(rec) == <<rec.chapter, rec.code, rec.description>>

ChapterOf(rec) == rec.chapter

NoDuplicateKey(seq, K(_)) ==
    \A i, j \in 1..Len(seq) : i # j => K(seq[i]) # K(seq[j])

\* the positions of seq that hold the first record of their key
FirstPositions(seq, K(_)) ==
    {i \in 1..Len(seq) : \A j \in 1..(i - 1) : K(seq[j]) # K(seq[i])}

\* out is seq restricted to the first record of each key, order kept
IsFirstPerKey(out, seq, K(_)) ==
    LET F == FirstPositions(seq, K)
    IN /\ Len(out) = Cardinality(F)
       /\ \A i \in F : out[Cardinality({j \in F : j <= i})] = seq[i]

RowsOfChapter(seq, n) == {i \in 1..Len(seq) : seq[i].chapter = Fmt02d(n)}

\* chapter n was fetched and its extraction has run
Extracted(n) == outcome[n] = "ok" /\ ~(n = chapter /\ pc = "extract")

HasTitleLine(t, ch) ==
    \E i \in 1..Len(splitlines(t)) :
        TitleMatch(strip(splitlines(t)[i]), Fmt02d(ch)) # 0

InLoop == pc \in {"fetch", "extract", "sleep"}

(***************************************************************************)
(* C1: a chapter whose fetch raises an HTTP or request error adds nothing  *)
(* to either accumulator, and the run goes on to the next chapter, or to   *)
(* the deduplication after the last chapter.                               *)
(***************************************************************************)
C1_FailedChapterAddsNothing ==
    [][(pc = "fetch" /\ outcome'[chapter] \in Failures)
          => /\ all_records' = all_records
             /\ chapter_records' = chapter_records
             /\ IF chapter < LastChapter
                THEN chapter' = chapter + 1 /\ pc' = "fetch"
                ELSE pc' = "dedupe_codes"]_vars

C1_Witness ==
    /\ pc = "fetch" /\ chapter = 3
    /\ outcome[1] = "ok" /\ outcome[2] \in Failures
    /\ all_records # <<>>
    /\ RowsOfChapter(all_records, 2) = {}
    /\ RowsOfChapter(chapter_records, 2) = {}

(***************************************************************************)
(* C2: one politeness sleep is performed between any two consecutive fetch *)
(* attempts, whether the earlier one succeeded or failed: when the fetch   *)
(* of a chapter begins, as many sleeps as earlier attempts have been made. *)
(***************************************************************************)
C2_SleepBetweenAttempts == pc = "fetch" => sleeps = Len(attempts)

(***************************************************************************)
(* C3: each successful fetch appends exactly one chapter-title record,     *)
(* with an empty title when no line matches; the chapters table written    *)
(* at the end has one row per fetched chapter, none for a failed one, in   *)
(* ascending chapter order.                                                *)
(***************************************************************************)
C3_OneTitleRowPerFetchedChapter ==
    /\ [](\A n \in Chapters :
             Cardinality(RowsOfChapter(chapter_records, n))
                 = IF Extracted(n) THEN 1 ELSE 0)
    /\ [](chapters_file.written =>
             LET rows == chapters_file.rows
                 ok   == {n \in Chapters : outcome[n] = "ok"}
             IN /\ Len(rows) = Cardinality(ok)
                /\ \A n \in ok : \E i \in 1..Len(rows) :
                       rows[i].chapter = Fmt02d(n)
                /\ \A i, j \in 1..Len(rows) : i < j =>
                       \E m, n \in ok : /\ m < n
                                        /\ rows[i].chapter = Fmt02d(m)
                                        /\ rows[j].chapter = Fmt02d(n))
    /\ [][(pc = "extract" /\ pc' = "sleep")
             => /\ Len(chapter_records') = Len(chapter_records) + 1
                /\ SubSeq(chapter_records', 1, Len(chapter_records))
                       = chapter_records
                /\ chapter_records'[Len(chapter_records')].chapter
                       = Fmt02d(chapter)
                /\ (chapter_records'[Len(chapter_records')].chapter_title = <<>>)
                       <=> ~HasTitleLine(text, chapter)]_vars

C3_Witness ==
    /\ pc = "done"
    /\ outcome[1] \in Failures
    /\ Len(chapters_file.rows) = LastChapter - 1
    /\ chapters_file.rows[1].chapter = Fmt02d(2)
    /\ chapters_file.rows[1].chapter_title = <<>>
    /\ chapters_file.rows[2].chapter_title # <<>>

(***************************************************************************)
(* C4: the code rows written hold no two records with the same (chapter,   *)
(* code, description) and are the accumulated code records restricted to   *)
(* the first record of each key, order kept; the chapter rows written are  *)
(* the title accumulator restricted to the first record of each chapter.   *)
(***************************************************************************)
C4_WrittenRowsAreFirstPerKey ==
    /\ codes_file.written =>
           /\ NoDuplicateKey(codes_file.rows, KeyOf)
           /\ IsFirstPerKey(codes_file.rows, all_records, KeyOf)
    /\ chapters_file.written =>
           IsFirstPerKey(chapters_file.rows, chapter_records, ChapterOf)

C4_Witness ==
    /\ pc = "done"
    /\ \E i, j \in 1..Len(codes_file.rows) :
           /\ i < j
           /\ codes_file.rows[i].chapter = codes_file.rows[j].chapter
           /\ codes_file.rows[i].code = codes_file.rows[j].code
           /\ codes_file.rows[i].description # codes_file.rows[j].description
    /\ Len(chapters_file.rows) >= 2

(***************************************************************************)
(* C5: whatever the outcomes of the fetches, the run reaches its end with  *)
(* both tables written from the deduplicated records.                      *)
(***************************************************************************)
C5_RunCompletes ==
    <>(/\ pc = "done"
       /\ codes_file.written /\ codes_file.rows = deduped_records
       /\ chapters_file.written /\ chapters_file.rows = chapters_clean)

C5_Witness ==
    /\ pc = "done"
    /\ codes_file.written /\ chapters_file.written
    /\ \A n \in Chapters : outcome[n] \in Failures
    /\ \E n \in Chapters : outcome[n] = "HTTPError"
    /\ \E n \in Chapters : outcome[n] = "RequestException"

(***************************************************************************)
(* C6: the fetch attempts of a run are the chapters 1, 2, ... in ascending *)
(* order, one attempt each; the attempt for a chapter is made only when    *)
(* every earlier chapter has been attempted and, if fetched, extracted;    *)
(* after the loop every chapter has been attempted once.                   *)
(***************************************************************************)
C6_OneAttemptPerChapterInOrder ==
    /\ attempts = [i \in 1..Len(attempts) |-> i]
    /\ Len(attempts) = IF pc = "fetch" THEN chapter - 1
                       ELSE IF InLoop THEN chapter ELSE LastChapter
    /\ \A n \in Chapters : (outcome[n] # "none") <=> (n <= Len(attempts))
    /\ pc = "fetch" => \A n \in 1..(chapter - 1) :
           outcome[n] = "ok" => RowsOfChapter(chapter_records, n) # {}

C6_Witness ==
    /\ pc = "done"
    /\ attempts = [i \in 1..LastChapter |-> i]
    /\ outcome[1] = "HTTPError"
    /\ outcome[2] = "ok"
    /\ outcome[LastChapter] = "RequestException"

(***************************************************************************)
(* C10: the accumulators never hold two code records with the same         *)
(* (chapter, code, description) nor two title records of one chapter, so   *)
(* the tables written equal the accumulators.                              *)
(***************************************************************************)
C10_AccumulatorsDuplicateFree ==
    /\ NoDuplicateKey(all_records, KeyOf)
    /\ NoDuplicateKey(chapter_records, ChapterOf)
    /\ ~InLoop /\ pc # "dedupe_codes" => deduped_records = all_records
    /\ codes_file.written => codes_file.rows = all_records
    /\ pc \in {"write_chapters", "done"} => chapters_clean = chapter_records
    /\ chapters_file.written => chapters_file.rows = chapter_records

\* the number of code matches in the lines of t
MatchCount(t) ==
    Cardinality({<<i, p>> \in (1..Len(splitlines(t))) \X (1..Len(t)) :
                    MatchAt(strip(splitlines(t)[i]), p)})

C10_Witness ==
    /\ pc = "done"
    /\ outcome[LastChapter] = "ok"
    /\ MatchCount(text) > Len(chapter_codes)
    /\ Len(all_records) > Len(chapter_codes)
    /\ codes_file.rows = all_records
    /\ chapters_file.rows = chapter_records

(***************************************************************************)
(* Vocabulary of the extractor properties                                  *)
(***************************************************************************)
StrippedLines(t) ==
    LET ls == splitlines(t) IN [i \in 1..Len(ls) |-> strip(ls[i])]

\* the non-overlapping occurrences of the pattern in a line, from the left:
\* an occurrence counts unless it starts inside an occurrence that counts
Occurrences(line) ==
    LET all == {p \in 1..Len(line) : MatchAt(line, p)}
    IN CHOOSE S \in SUBSET all :
           S = {p \in all : \A q \in S : ~(q < p /\ p < q + CODE_LEN)}

\* the code matches of the lines: <<line number, start position>>
MatchesOf(lines) ==
    UNION {{<<i, p>> : p \in Occurrences(lines[i])} : i \in 1..Len(lines)}

Before(m, n) == m[1] < n[1] \/ (m[1] = n[1] /\ m[2] < n[2])

\* the record of match m: its code, and the line's text after its own end
RecordOf(lines, m) ==
    LET line == lines[m[1]]
    IN [chapter     |-> Fmt02d(chapter),
        code        |-> SubSeq(line, m[2], m[2] + CODE_LEN - 1),
        description |-> lstrip(strip(SubSeq(line, m[2] + CODE_LEN, Len(line))),
                               LSTRIP_CHARS)]

\* 10 + 2 + 2 characters of [0-9*] with the two hyphens, starting at p
TokenAt(line, p) ==
    /\ p >= 1
    /\ p + CODE_LEN - 1 <= Len(line)
    /\ \A k \in 0..(CODE_LEN - 1) :
           IF k \in {GROUP1, GROUP1 + 1 + GROUP2}
           THEN line[p + k] = "-"
           ELSE InCodeClass(line[p + k])

\* the token at p stands on its own: the line ends or has whitespace on
\* either side of it
StandsAlone(line, p) ==
    /\ p = 1 \/ IsSpace(line[p - 1])
    /\ p + CODE_LEN - 1 = Len(line) \/ IsSpace(line[p + CODE_LEN])

(***************************************************************************)
(* C7: the description of a record never begins with a whitespace          *)
(* character nor with a hyphen, an en dash, an em dash or a colon.         *)
(***************************************************************************)
C7_DescriptionHasNoLeadingSeparator ==
    pc = "extracted" =>
        \A i \in 1..Len(chapter_codes) :
            LET d == chapter_codes[i].description
            IN d # <<>> => /\ ~IsSpace(d[1])
                           /\ d[1] \notin {"-", "EN", "EM", ":"}

(***************************************************************************)
(* C8: every token of 10, 2 and 2 characters of [0-9*] joined by hyphens   *)
(* that stands on a line yields a record with that code, whatever the      *)
(* positions of its digits and stars; every code recorded is such a token, *)
(* and a token with a 9-character first group or a 1-character middle      *)
(* group yields no record.                                                 *)
(***************************************************************************)
C8_PatternMatchesEveryToken ==
    pc = "extracted" =>
        LET lines == StrippedLines(text)
        IN /\ \A i \in 1..Len(lines) : \A p \in 1..Len(lines[i]) :
                  (TokenAt(lines[i], p) /\ StandsAlone(lines[i], p))
                      => \E k \in 1..Len(chapter_codes) :
                             chapter_codes[k].code
                                 = SubSeq(lines[i], p, p + CODE_LEN - 1)
           /\ \A k \in 1..Len(chapter_codes) :
                  TokenAt(chapter_codes[k].code, 1)
           /\ text \in {ShortFirst, ShortMiddle} => chapter_codes = <<>>

(***************************************************************************)
(* C9: the records of a text are those of its code matches, lines top to   *)
(* bottom and matches left to right, each with the description taken after *)
(* its own match; a match yields no record only when an identical record   *)
(* came from an earlier match.                                             *)
(***************************************************************************)
C9_OneRecordPerMatchInOrder ==
    pc = "extracted" =>
        LET lines   == StrippedLines(text)
            matches == MatchesOf(lines)
            \* the first match that yields the k-th record
            first   == [k \in 1..Len(chapter_codes) |->
                           CHOOSE m \in matches :
                               /\ RecordOf(lines, m) = chapter_codes[k]
                               /\ \A n \in matches :
                                      RecordOf(lines, n) = chapter_codes[k]
                                          => ~Before(n, m)]
        IN /\ {chapter_codes[k] : k \in 1..Len(chapter_codes)}
                  = {RecordOf(lines, m) : m \in matches}
           /\ \A j, k \in 1..Len(chapter_codes) : j < k =>
                  /\ chapter_codes[j] # chapter_codes[k]
                  /\ Before(first[j], first[k])

C9_Witness ==
    /\ pc = "extracted"
    /\ Len(StrippedLines(text)) = 1
    /\ Cardinality(MatchesOf(StrippedLines(text))) = 2
    /\ Len(chapter_codes) = 2
    /\ chapter_codes[1].code = chapter_codes[2].code
    /\ chapter_codes[1].description = chapter_codes[2].code
    /\ chapter_codes[2].description = <<>>

====
